---- MODULE Spec2Model ----
(***************************************************************************)
(* URL shortener backend: the Url collection (models/urlModel.js), the     *)
(* request handlers of the URL controller (createShortUrl, redirectToUrl,  *)
(* getUrlStats, deleteUrl, updateUrlStatus) and the helpers they call.     *)
(*                                                                         *)
(* Time is counted in minutes.  Strings the code manipulates (URLs, short  *)
(* codes) are sequences of one-character strings.  A nullable value is a   *)
(* set with at most one element ({} is null / undefined).                  *)
(*                                                                         *)
(* A handler is cut into steps at its database operations: every step is   *)
(* the local computation that follows the previous await together with the *)
(* next (atomic) database operation.                                       *)
(***************************************************************************)
EXTENDS Integers, Sequences, FiniteSets, TLC

VARIABLES
  store,    \* the Url collection: a set of documents
  nextId,   \* the _id the next inserted document gets (natural order)
  now,      \* the clock, in minutes
  pc,       \* pc[p]: where request slot p is in its handler
  req,      \* req[p]: the handler's local variables
  resp,     \* the response being sent, NoResponse once it is delivered
  gen,      \* the call of generateShortCode in progress
  log,      \* the call of Log in progress
  mw,       \* the logging middleware serving a request
  ui        \* the state of the UrlShortener component

\* the state outside the URL service
aux == <<gen, log, mw, ui>>

vars == <<store, nextId, now, pc, req, resp, gen, log, mw, ui>>

(***************************************************************************)
(* Bounds of the model.                                                    *)
(***************************************************************************)
MaxTime == 2
MaxRecords == 2
MaxDedupRecords == 3
MaxClicks == 2

Procs == {1, 2}

\* the request slot used when requests are served one at a time
SeqProcs == {1}

(***************************************************************************)
(* Program constants.                                                      *)
(***************************************************************************)
DEFAULT_VALIDITY_MINUTES == 30
SHORT_CODE_LENGTH == 5
maxAttempts == 10
minLength == 3
maxLength == 20
VALIDITY_MIN == 1
VALIDITY_MAX == 525600

(***************************************************************************)
(* Strings.                                                                *)
(***************************************************************************)
HTTP == <<"h", "t", "t", "p", ":", "/", "/">>
HTTPS == <<"h", "t", "t", "p", "s", ":", "/", "/">>

LowerAlpha ==
  {"a", "b", "c", "d", "e", "f", "g", "h", "i", "j", "k", "l", "m",
   "n", "o", "p", "q", "r", "s", "t", "u", "v", "w", "x", "y", "z"}
UpperAlpha ==
  {"A", "B", "C", "D", "E", "F", "G", "H", "I", "J", "K", "L", "M",
   "N", "O", "P", "Q", "R", "S", "T", "U", "V", "W", "X", "Y", "Z"}
Digits == {"0", "1", "2", "3", "4", "5", "6", "7", "8", "9"}

\* the character class of /^[a-zA-Z0-9_-]+$/
validPattern == LowerAlpha \cup UpperAlpha \cup Digits \cup {"_", "-"}

\* the case folding of a regular expression's i flag, on the letters of a scheme
LowerChar(ch) ==
  CASE ch = "H" -> "h"
    [] ch = "T" -> "t"
    [] ch = "P" -> "p"
    [] ch = "S" -> "s"
    [] OTHER -> ch

ToLower(s) == [i \in 1..Len(s) |-> LowerChar(s[i])]

IsPrefix(pre, s) == Len(pre) <= Len(s) /\ SubSeq(s, 1, Len(pre)) = pre

\* String.prototype.trim
Trim(s) ==
  LET keep == {i \in 1..Len(s) : s[i] # " "}
      lo == CHOOSE i \in keep : \A j \in keep : i <= j
      hi == CHOOSE i \in keep : \A j \in keep : i >= j
  IN IF keep = {} THEN <<>> ELSE SubSeq(s, lo, hi)

\* /^https?:\/\//i.test(url)
HasScheme(url) ==
  IsPrefix(HTTP, ToLower(url)) \/ IsPrefix(HTTPS, ToLower(url))

sanitizeUrl(url) ==
  IF url = <<>>
  THEN <<>>
  ELSE LET t == Trim(url) IN IF HasScheme(t) THEN t ELSE HTTP \o t

\* new URL(string) succeeds and its protocol is http: or https: .  The parser
\* lower-cases the scheme and needs a non-empty host without blanks.
isValidUrl(string) ==
  LET l == ToLower(string)
      host == IF IsPrefix(HTTPS, l) THEN SubSeq(l, Len(HTTPS) + 1, Len(l))
              ELSE SubSeq(l, Len(HTTP) + 1, Len(l))
  IN /\ IsPrefix(HTTP, l) \/ IsPrefix(HTTPS, l)
     /\ host # <<>>
     /\ \A i \in 1..Len(host) : host[i] # " "

\* isValidShortCode without the lower bound on the length
isValidShortCodeNoMinimum(shortCode) ==
  /\ shortCode # <<>>
  /\ \A i \in 1..Len(shortCode) : shortCode[i] \in validPattern
  /\ Len(shortCode) <= maxLength

isValidShortCode(shortCode) ==
  /\ shortCode # <<>>
  /\ \A i \in 1..Len(shortCode) : shortCode[i] \in validPattern
  /\ Len(shortCode) >= minLength
  /\ Len(shortCode) <= maxLength

\* A JSON value of body.validity: a number, a string of decimal digits that
\* denotes value, or a string that denotes no number ("text").
NumberValue(value) == [type |-> "number", value |-> value]
StringValue(value) == [type |-> "string", value |-> value]
TextValue == [type |-> "text", value |-> 0]

\* isNaN(Number(v)), Number(v)
IsNaN(v) == v.type = "text"
ToNumber(v) == v.value

\* v is truthy: a number other than 0, a non-empty string
Truthy(v) == v.type # "number" \/ v.value # 0

\* body.url, body.validity and body.shortcode are nullable
validateShortenRequest(body) ==
  /\ body.url # {}
  /\ \A url \in body.url : url # <<>> /\ isValidUrl(sanitizeUrl(url))
  /\ \A validity \in body.validity :
       ~(\/ IsNaN(validity)
         \/ ToNumber(validity) < VALIDITY_MIN
         \/ ToNumber(validity) > VALIDITY_MAX)
  /\ \A shortcode \in body.shortcode : isValidShortCode(shortcode)

\* the number of decimal digits of n
RECURSIVE DecimalLen(_)
DecimalLen(n) == IF n < 10 THEN 1 ELSE 1 + DecimalLen(n \div 10)

RECURSIVE Pow10(_)
Pow10(k) == IF k = 0 THEN 1 ELSE 10 * Pow10(k - 1)

\* expiryDate.getMinutes() + validityInMinutes: a sum of numbers, but the
\* concatenation of the minutes with a string
MinutesPlus(minutes, validityInMinutes) ==
  IF validityInMinutes.type = "number"
  THEN minutes + validityInMinutes.value
  ELSE minutes * Pow10(DecimalLen(validityInMinutes.value))
         + validityInMinutes.value

\* new Date() at t with setMinutes(getMinutes() + validityInMinutes): the clock
\* counts minutes, getMinutes() is the minute of the hour
calculateExpiryDate(t, validityInMinutes) ==
  (t - (t % 60)) + MinutesPlus(t % 60, validityInMinutes)

(***************************************************************************)
(* The Url model.                                                          *)
(***************************************************************************)
NoTime == -1

\* the comparison of isExpired turned around
isExpiredReversed(doc, t) == t < doc.expiry

isExpired(doc, t) == t > doc.expiry

\* isValidForRedirect without the negation of isExpired
isValidForRedirectLapsed(doc, t) == doc.isActive /\ isExpired(doc, t)

isValidForRedirect(doc, t) == doc.isActive /\ ~isExpired(doc, t)

\* new Url({originalUrl, shortCode, validity, expiry}) with the schema
\* defaults; validity is cast to the schema's Number
NewUrl(originalUrl, shortCode, validity, expiry, t) ==
  [id |-> nextId, originalUrl |-> originalUrl, shortCode |-> shortCode,
   validity |-> ToNumber(validity), expiry |-> expiry, clicks |-> 0,
   createdAt |-> t,
   lastAccessed |-> NoTime, isActive |-> TRUE]

\* the schema validators run by save(): originalUrl matches /^https?:\/\/.+/,
\* shortCode has 3..20 characters, validity is within 1..525600
SchemaValid(doc) ==
  /\ \/ IsPrefix(HTTP, doc.originalUrl) /\ Len(doc.originalUrl) > Len(HTTP)
     \/ IsPrefix(HTTPS, doc.originalUrl) /\ Len(doc.originalUrl) > Len(HTTPS)
  /\ Len(doc.shortCode) >= minLength
  /\ Len(doc.shortCode) <= maxLength
  /\ doc.validity >= VALIDITY_MIN
  /\ doc.validity <= VALIDITY_MAX

\* a collection whose shortCode index is not unique
DuplicateKeyUnindexed(coll, doc) == FALSE

\* the unique index on shortCode: an insert of doc into coll is refused (E11000)
DuplicateKey(coll, doc) == \E r \in coll : r.shortCode = doc.shortCode

\* pre(/^find/): a find*, findOne* query whose filter has no isActive key
\* also gets isActive: {$ne: false}
PreFind(coll) == {r \in coll : r.isActive # FALSE}

\* the first document of a result in natural (insertion) order, or null
First(docs) ==
  IF docs = {} THEN {} ELSE {CHOOSE r \in docs : \A q \in docs : r.id <= q.id}

\* Url.findOne({originalUrl})
FindOneByUrl(coll, originalUrl) ==
  First({r \in PreFind(coll) : r.originalUrl = originalUrl})

\* Url.findByShortCode(shortCode) = findOne({shortCode, isActive: true})
findByShortCode(coll, shortCode) ==
  First({r \in coll : r.shortCode = shortCode /\ r.isActive = TRUE})

\* the document matched by findOneAndDelete({shortCode}) and by
\* findOneAndUpdate({shortCode}, ...): both are find* queries
FindOneByCode(coll, shortCode) ==
  First({r \in PreFind(coll) : r.shortCode = shortCode})

\* incrementClicks without the increment
incrementClicksTouchOnly(doc, t) == [doc EXCEPT !.lastAccessed = t]

\* doc.clicks += 1; doc.lastAccessed = new Date()
incrementClicks(doc, t) ==
  [doc EXCEPT !.clicks = doc.clicks + 1, !.lastAccessed = t]

\* a save() that writes the whole loaded document back
SaveModifiedWholeDocument(coll, doc) ==
  {IF r.id = doc.id THEN doc ELSE r : r \in coll}

\* save() of a loaded document writes its modified paths to the stored
\* document with the same _id
SaveModified(coll, doc) ==
  {IF r.id = doc.id
   THEN [r EXCEPT !.clicks = doc.clicks, !.lastAccessed = doc.lastAccessed]
   ELSE r : r \in coll}

(***************************************************************************)
(* Inputs.                                                                 *)
(***************************************************************************)
UrlA == <<"a">>
UrlHttpA == HTTP \o <<"a">>
UrlPaddedB == <<" ">> \o HTTPS \o <<"b", " ">>
UrlBlank == <<" ">>
UrlUpperA == <<"H", "T", "T", "P", ":", "/", "/", "a">>

RawUrls == {{}, {UrlA}, {UrlHttpA}, {UrlPaddedB}, {UrlBlank}}

CodeAbc == <<"a", "b", "c">>
CodeGen1 == <<"a", "a", "a", "a", "a">>
CodeGen2 == <<"b", "b", "b", "b", "b">>
CodeShort == <<"a", "b">>
CodeBang == <<"a", "b", "!">>

\* the codes a request may name, and the custom codes a body may carry
Codes == {CodeAbc, CodeGen1, CodeGen2}
ShortcodeInputs == {{}, {CodeAbc}, {CodeGen1}, {CodeShort}, {CodeBang}}

\* the values generateShortCode may return (nanoid draws at random)
GenCodes == {CodeGen1, CodeGen2}

ValidityInputs == {{}, {NumberValue(0)}, {NumberValue(1)}}

Bodies == [url : RawUrls, validity : ValidityInputs, shortcode : ShortcodeInputs]

\* the values of body.isActive: typeof and, for a boolean, the value
IsActiveInputs ==
  {[type |-> "boolean", value |-> TRUE], [type |-> "boolean", value |-> FALSE],
   [type |-> "string", value |-> TRUE]}

\* the parameters of a list request
Query(page, limit, sortBy, sortOrder, includeExpired) ==
  [page |-> page, limit |-> limit, sortBy |-> sortBy, sortOrder |-> sortOrder,
   includeExpired |-> includeExpired]

DefaultQuery == Query({}, {}, {}, {}, {})

Queries ==
  [page : {{}, {1}, {2}}, limit : {{}, {1}, {2}}, sortBy : {{}, {"expiry"}},
   sortOrder : {{}, {"asc"}}, includeExpired : {{}, {"false"}, {"true"}, {""}}]

(***************************************************************************)
(* Requests in progress and responses.                                     *)
(***************************************************************************)
\* A response: the request it answers (slot p, operation op, the shortCode
\* path parameter, body.isActive) and what is sent (status, error message,
\* the body's shortCode, originalUrl and existing, the document reported).
\* the body of a list response: {urls, pagination}
Page(urls, page, totalPages, total, limit, hasNextPage, hasPrevPage) ==
  [urls |-> urls, currentPage |-> page, totalPages |-> totalPages,
   totalItems |-> total, itemsPerPage |-> limit,
   hasNextPage |-> hasNextPage, hasPrevPage |-> hasPrevPage]

NoPage == Page(<<>>, 0, 0, 0, 0, FALSE, FALSE)

Response(p, op, param, arg, status, error, shortCode, originalUrl, existing, docs) ==
  [p |-> p, op |-> op, param |-> param, arg |-> arg, status |-> status,
   error |-> error, shortCode |-> shortCode, originalUrl |-> originalUrl,
   existing |-> existing, docs |-> docs, page |-> NoPage]

NoResponse == Response(0, "none", <<>>, {}, 0, "", <<>>, <<>>, FALSE, {})

\* an error response: {error, shortCode?}
ErrorResponse(p, op, param, arg, status, error) ==
  Response(p, op, param, arg, status, error, <<>>, <<>>, FALSE, {})

NoBody == [url |-> {}, validity |-> {}, shortcode |-> {}]

IdleReq ==
  [body |-> NoBody, sanitizedUrl |-> <<>>, validityInMinutes |-> NumberValue(0),
   expiryDate |-> 0, shortcode |-> {}, shortCode |-> <<>>, attempts |-> 0,
   found |-> {}]

CreatePcs == {"dedup", "custom", "generate", "thrown"}

\* the handler of slot p returns after sending r
Finish(p, r) ==
  /\ pc' = [pc EXCEPT ![p] = "idle"]
  /\ req' = [req EXCEPT ![p] = IdleReq]
  /\ resp' = r

\* no call of generateShortCode is in progress
IdleGen == [pc |-> "idle", path |-> "none", length |-> 0, code |-> <<>>]

\* no call of Log is in progress
IdleLog ==
  [pc |-> "idle", caller |-> "none", stack |-> "", level |-> "", pkg |-> "",
   suppressErrors |-> FALSE, posted |-> FALSE, result |-> "none",
   outcome |-> "none", ok |-> FALSE]

\* no request is in the logging middleware; the process is running
IdleMw ==
  [pc |-> "idle", kind |-> "none", stack |-> "", pkg |-> "", level |-> "",
   err |-> {}, nextCalls |-> 0, forwarded |-> {}, logged |-> "none",
   exited |-> FALSE]

\* the component before a request is made: no body is on its way
NoRequestBody == [url |-> {}, validity |-> {}, shortcode |-> {}]

\* the state of UrlShortener after its first render
IdleUi ==
  [pc |-> "idle", urls |-> <<>>, currentUrl |-> <<>>, validityPeriod |-> <<>>,
   preferredShortcode |-> <<>>, loading |-> FALSE, error |-> "",
   success |-> "", requestBody |-> NoRequestBody]

Init ==
  /\ store = {}
  /\ nextId = 1
  /\ now = 0
  /\ pc = [p \in Procs |-> "idle"]
  /\ req = [p \in Procs |-> IdleReq]
  /\ resp = NoResponse
  /\ gen = IdleGen
  /\ log = IdleLog
  /\ mw = IdleMw
  /\ ui = IdleUi

Tick ==
  /\ now' = now + 1
  /\ UNCHANGED <<store, nextId, pc, req, resp>>
  /\ UNCHANGED aux

\* res.json(...) / res.redirect(...) has handed the response to the client
Deliver ==
  /\ resp # NoResponse
  /\ resp' = NoResponse
  /\ UNCHANGED <<store, nextId, now, pc, req>>
  /\ UNCHANGED aux

(***************************************************************************)
(* createShortUrl                                                          *)
(***************************************************************************)
\* a catch block that takes every error for a duplicate key
CatchStatusAlwaysConflict(error) == 409

\* a catch block without the branch for the duplicate key error 11000
CatchStatusWithoutDuplicateKey(error) ==
  CASE error = "ValidationError" -> 400
    [] OTHER -> 500

\* the status the catch block answers an error with
CatchStatus(error) ==
  CASE error = "E11000" -> 409
    [] error = "ValidationError" -> 400
    [] OTHER -> 500

\* body.validity || process.env.DEFAULT_VALIDITY_MINUTES || 30
ValidityOrDefault(body) ==
  IF \E validity \in body.validity : Truthy(validity)
  THEN CHOOSE validity \in body.validity : TRUE
  ELSE NumberValue(DEFAULT_VALIDITY_MINUTES)

\* validation, sanitizing, the expiry date, and the lookup by original URL
createBegin(p, body) ==
  /\ pc[p] = "idle"
  /\ IF ~validateShortenRequest(body)
     THEN Finish(p, ErrorResponse(p, "shorten", <<>>, {}, 400, "Validation failed"))
     ELSE LET url == CHOOSE u \in body.url : TRUE
              sanitizedUrl == sanitizeUrl(url)
              validityInMinutes == ValidityOrDefault(body)
          IN /\ pc' = [pc EXCEPT ![p] = "dedup"]
             /\ req' = [req EXCEPT ![p] =
                  [body |-> body,
                   sanitizedUrl |-> sanitizedUrl,
                   validityInMinutes |-> validityInMinutes,
                   expiryDate |-> calculateExpiryDate(now, validityInMinutes),
                   shortcode |-> body.shortcode,
                   shortCode |-> <<>>,
                   attempts |-> 0,
                   found |-> FindOneByUrl(store, sanitizedUrl)]]
             /\ UNCHANGED resp
  /\ UNCHANGED <<store, nextId, now>>
  /\ UNCHANGED aux

\* one turn of the do-while body, up to its findByShortCode or its throw
GenerateNext(p) ==
  \E generated \in GenCodes :
    LET attempts == req[p].attempts + 1
    IN IF attempts >= maxAttempts
       THEN /\ pc' = [pc EXCEPT ![p] = "thrown"]
            /\ req' = [req EXCEPT ![p].shortCode = generated,
                                  ![p].attempts = attempts]
            /\ UNCHANGED resp
       ELSE /\ pc' = [pc EXCEPT ![p] = "generate"]
            /\ req' = [req EXCEPT ![p].shortCode = generated,
                                  ![p].attempts = attempts,
                                  ![p].found = findByShortCode(store, generated)]
            /\ UNCHANGED resp

\* the answer to findOne({originalUrl}); then the first lookup by short code
createDedup(p) ==
  /\ pc[p] = "dedup"
  /\ LET existingUrl == req[p].found
     IN IF existingUrl # {} /\ \A e \in existingUrl : isValidForRedirect(e, now)
        THEN Finish(p, Response(p, "shorten", <<>>, {}, 200, "",
                                (CHOOSE e \in existingUrl : TRUE).shortCode,
                                <<>>, TRUE, existingUrl))
        ELSE IF req[p].shortcode # {}
        THEN LET shortcode == CHOOSE c \in req[p].shortcode : TRUE
             IN /\ pc' = [pc EXCEPT ![p] = "custom"]
                /\ req' = [req EXCEPT ![p].found = findByShortCode(store, shortcode)]
                /\ UNCHANGED resp
        ELSE GenerateNext(p)
  /\ UNCHANGED <<store, nextId, now>>
  /\ UNCHANGED aux

\* newUrl.save() and the answers that follow it
SaveNewUrl(p, shortCode) ==
  LET newUrl == NewUrl(req[p].sanitizedUrl, shortCode,
                       req[p].validityInMinutes, req[p].expiryDate, now)
  IN IF ~SchemaValid(newUrl)
     THEN /\ Finish(p, ErrorResponse(p, "shorten", <<>>, {},
                                     CatchStatus("ValidationError"),
                                     "Validation error"))
          /\ UNCHANGED <<store, nextId>>
     ELSE IF DuplicateKey(store, newUrl)
     THEN /\ Finish(p, ErrorResponse(p, "shorten", <<>>, {},
                                     CatchStatus("E11000"),
                                     "Short code already exists. Please try again."))
          /\ UNCHANGED <<store, nextId>>
     ELSE /\ store' = store \cup {newUrl}
          /\ nextId' = nextId + 1
          /\ Finish(p, Response(p, "shorten", <<>>, {}, 201, "", shortCode,
                                req[p].sanitizedUrl, FALSE, {newUrl}))

\* the answer to findByShortCode(shortcode) for a custom code
createCustom(p) ==
  /\ pc[p] = "custom"
  /\ LET codeExists == req[p].found
         shortcode == CHOOSE c \in req[p].shortcode : TRUE
     IN IF codeExists # {} /\ \A e \in codeExists : isValidForRedirect(e, now)
        THEN /\ Finish(p, ErrorResponse(p, "shorten", <<>>, {}, 400,
                          "Custom shortcode already exists and is active"))
             /\ UNCHANGED <<store, nextId>>
        ELSE SaveNewUrl(p, shortcode)
  /\ UNCHANGED now
  /\ UNCHANGED aux

\* the answer to findByShortCode(shortCode) for a generated code
createGenerate(p) ==
  /\ pc[p] = "generate"
  /\ IF req[p].found # {}
     THEN GenerateNext(p) /\ UNCHANGED <<store, nextId>>
     ELSE SaveNewUrl(p, req[p].shortCode)
  /\ UNCHANGED now
  /\ UNCHANGED aux

\* the catch block after the throw of "Unable to generate unique short code"
createCatch(p) ==
  /\ pc[p] = "thrown"
  /\ Finish(p, ErrorResponse(p, "shorten", <<>>, {}, CatchStatus("Error"),
                             "Internal server error"))
  /\ UNCHANGED <<store, nextId, now>>
  /\ UNCHANGED aux

(***************************************************************************)
(* redirectToUrl                                                           *)
(***************************************************************************)
redirectFind(p, shortCode) ==
  /\ pc[p] = "idle"
  /\ LET url == findByShortCode(store, shortCode)
     IN IF url = {}
        THEN Finish(p, ErrorResponse(p, "resolve", shortCode, {}, 404,
                                     "Short URL not found"))
        ELSE /\ pc' = [pc EXCEPT ![p] = "redirect"]
             /\ req' = [req EXCEPT ![p].shortCode = shortCode, ![p].found = url]
             /\ UNCHANGED resp
  /\ UNCHANGED <<store, nextId, now>>
  /\ UNCHANGED aux

redirectSave(p) ==
  /\ pc[p] = "redirect"
  /\ LET url == CHOOSE u \in req[p].found : TRUE
         shortCode == req[p].shortCode
     IN IF isExpired(url, now)
        THEN /\ Finish(p, ErrorResponse(p, "resolve", shortCode, {}, 410,
                                        "Short URL has expired"))
             /\ UNCHANGED store
        ELSE IF ~url.isActive
        THEN /\ Finish(p, ErrorResponse(p, "resolve", shortCode, {}, 410,
                                        "Short URL is no longer active"))
             /\ UNCHANGED store
        ELSE IF \E r \in store : r.id = url.id
        THEN /\ store' = SaveModified(store, incrementClicks(url, now))
             /\ Finish(p, Response(p, "resolve", shortCode, {}, 301, "", <<>>,
                                   url.originalUrl, FALSE, {}))
        ELSE /\ Finish(p, ErrorResponse(p, "resolve", shortCode, {}, 500,
                                        "Internal server error"))
             /\ UNCHANGED store
  /\ UNCHANGED <<nextId, now>>
  /\ UNCHANGED aux

(***************************************************************************)
(* getUrlStats, deleteUrl, updateUrlStatus                                 *)
(***************************************************************************)
getUrlStats(p, shortCode) ==
  /\ pc[p] = "idle"
  /\ LET url == findByShortCode(store, shortCode)
     IN IF url = {}
        THEN Finish(p, ErrorResponse(p, "stats", shortCode, {}, 404,
                                     "Short URL not found"))
        ELSE Finish(p, Response(p, "stats", shortCode, {}, 200, "",
                                (CHOOSE u \in url : TRUE).shortCode,
                                (CHOOSE u \in url : TRUE).originalUrl, FALSE, url))
  /\ UNCHANGED <<store, nextId, now>>
  /\ UNCHANGED aux

deleteUrl(p, shortCode) ==
  /\ pc[p] = "idle"
  /\ LET deletedUrl == FindOneByCode(store, shortCode)
     IN IF deletedUrl = {}
        THEN /\ Finish(p, ErrorResponse(p, "remove", shortCode, {}, 404,
                                        "Short URL not found"))
             /\ UNCHANGED store
        ELSE /\ store' = store \ deletedUrl
             /\ Finish(p, Response(p, "remove", shortCode, {}, 200, "",
                                   (CHOOSE u \in deletedUrl : TRUE).shortCode,
                                   (CHOOSE u \in deletedUrl : TRUE).originalUrl,
                                   FALSE, deletedUrl))
  /\ UNCHANGED <<nextId, now>>
  /\ UNCHANGED aux

updateUrlStatus(p, shortCode, isActive) ==
  /\ pc[p] = "idle"
  /\ IF isActive.type # "boolean"
     THEN /\ Finish(p, ErrorResponse(p, "setActive", shortCode, {isActive}, 400,
                                     "isActive must be a boolean value"))
          /\ UNCHANGED store
     ELSE LET matched == FindOneByCode(store, shortCode)
              url == {[r EXCEPT !.isActive = isActive.value] : r \in matched}
          IN IF matched = {}
             THEN /\ Finish(p, ErrorResponse(p, "setActive", shortCode, {isActive},
                                             404, "Short URL not found"))
                  /\ UNCHANGED store
             ELSE /\ store' = (store \ matched) \cup url
                  /\ Finish(p, Response(p, "setActive", shortCode, {isActive}, 200,
                                        "", (CHOOSE u \in url : TRUE).shortCode,
                                        (CHOOSE u \in url : TRUE).originalUrl,
                                        FALSE, url))
  /\ UNCHANGED <<nextId, now>>
  /\ UNCHANGED aux

(***************************************************************************)
(* getAllUrls.  The parameters of req.query are nullable; a given one is a *)
(* string: page and limit are strings of digits, here the numbers they     *)
(* denote, which is what -, *, /, < and parseInt make of them.             *)
(***************************************************************************)
\* a string of req.query is truthy unless it is empty
TruthyString(str) == str # ""

\* { page = 1, limit = 10, sortBy = "createdAt", sortOrder = "desc",
\*   includeExpired = false } = req.query
QueryPage(query) == IF query.page = {} THEN 1 ELSE CHOOSE n \in query.page : TRUE
QueryLimit(query) == IF query.limit = {} THEN 10 ELSE CHOOSE n \in query.limit : TRUE
QuerySortBy(query) ==
  IF query.sortBy = {} THEN "createdAt" ELSE CHOOSE f \in query.sortBy : TRUE
QuerySortOrder(query) ==
  IF query.sortOrder = {} THEN "desc" ELSE CHOOSE o \in query.sortOrder : TRUE
QueryIncludeExpired(query) == \E str \in query.includeExpired : TruthyString(str)

\* the documents the filter {expiry: {$gt: new Date()}}, or {}, selects
QueryFilter(coll, query, t) ==
  IF ~QueryIncludeExpired(query) THEN {r \in coll : r.expiry > t} ELSE coll

\* the value of the path a query sorts by
SortKey(doc, sortBy) ==
  CASE sortBy = "createdAt" -> doc.createdAt
    [] sortBy = "expiry" -> doc.expiry
    [] sortBy = "clicks" -> doc.clicks
    [] OTHER -> 0

\* sort(sort): the orders of docs by the key, descending for "desc" and
\* ascending otherwise; documents with equal keys come in any order
Sorted(docs, sortBy, sortOrder) ==
  {order \in [1..Cardinality(docs) -> docs] :
     /\ \A i, j \in 1..Cardinality(docs) : i # j => order[i] # order[j]
     /\ \A i, j \in 1..Cardinality(docs) :
          i < j => IF sortOrder = "desc"
                   THEN SortKey(order[i], sortBy) >= SortKey(order[j], sortBy)
                   ELSE SortKey(order[i], sortBy) <= SortKey(order[j], sortBy)}

\* a skip of no documents in place of (page - 1) * limit
SkipOfNothing(page, limit) == 0

\* const skip = (page - 1) * limit
SkipOf(page, limit) == (page - 1) * limit

\* skip(skip).limit(limit)
SkipLimit(order, skip, limit) ==
  SubSeq(order, skip + 1, IF skip + limit < Len(order) THEN skip + limit
                          ELSE Len(order))

\* Math.ceil(total / limit)
CeilDiv(total, limit) == (total + limit - 1) \div limit

getAllUrls(p, query) ==
  /\ pc[p] = "idle"
  /\ LET page == QueryPage(query)
         limit == QueryLimit(query)
         skip == SkipOf(page, limit)
         \* countDocuments is not a find* query
         total == Cardinality(QueryFilter(store, query, now))
         totalPages == CeilDiv(total, limit)
     IN \E order \in Sorted(PreFind(QueryFilter(store, query, now)),
                            QuerySortBy(query), QuerySortOrder(query)) :
          Finish(p, [Response(p, "list", <<>>, {query}, 200, "", <<>>, <<>>,
                              FALSE, {})
                     EXCEPT !.page = Page(SkipLimit(order, skip, limit), page,
                                          totalPages, total, limit,
                                          page < totalPages, page > 1)])
  /\ UNCHANGED <<store, nextId, now>>
  /\ UNCHANGED aux

\* deleteMany({expiry: {$lt: new Date()}}): not a find* query
cleanupExpiredUrls ==
  /\ store' = {r \in store : ~(r.expiry < now)}
  /\ UNCHANGED <<nextId, now, pc, req, resp>>
  /\ UNCHANGED aux

(***************************************************************************)
(* generateShortCode and generateFallbackShortCode.  nanoid(size) draws    *)
(* size characters from its URL alphabet, A-Za-z0-9_-; the fallback draws  *)
(* length characters from chars, A-Za-z0-9.                                *)
(***************************************************************************)
urlAlphabet == LowerAlpha \cup UpperAlpha \cup Digits \cup {"_", "-"}
chars == UpperAlpha \cup LowerAlpha \cup Digits

\* the characters the random draws of the model yield
RandomDraws == {"a", "Z", "0", "_", "-"}

\* the lengths asked for: process.env.SHORT_CODE_LENGTH || 5, and 3
GenLengths == {SHORT_CODE_LENGTH, minLength}

\* nanoid fills size characters
nanoidContinues(i, size) == i < size

\* a loop that runs once more: i <= length
fallbackContinuesInclusive(i, length) == i <= length

\* for (let i = 0; i < length; i++)
fallbackContinues(i, length) == i < length

\* generateShortCode(length): import("nanoid") succeeds, or fails and the
\* catch block calls generateFallbackShortCode(length)
generateShortCode(length, importFails) ==
  /\ gen.pc = "idle"
  /\ gen' = [pc |-> "drawing",
             path |-> IF importFails THEN "fallback" ELSE "nanoid",
             length |-> length, code |-> <<>>]
  /\ UNCHANGED <<store, nextId, now, pc, req, resp, log, mw, ui>>

\* one character of nanoid(length)
nanoidDraw(ch) ==
  /\ gen.pc = "drawing"
  /\ gen.path = "nanoid"
  /\ nanoidContinues(Len(gen.code), gen.length)
  /\ ch \in urlAlphabet
  /\ gen' = [gen EXCEPT !.code = Append(gen.code, ch)]
  /\ UNCHANGED <<store, nextId, now, pc, req, resp, log, mw, ui>>

\* one turn of the loop of generateFallbackShortCode
generateFallbackShortCode(ch) ==
  /\ gen.pc = "drawing"
  /\ gen.path = "fallback"
  /\ fallbackContinues(Len(gen.code), gen.length)
  /\ ch \in chars
  /\ gen' = [gen EXCEPT !.code = Append(gen.code, ch)]
  /\ UNCHANGED <<store, nextId, now, pc, req, resp, log, mw, ui>>

\* return of the code
generateReturn ==
  /\ gen.pc = "drawing"
  /\ IF gen.path = "nanoid"
     THEN ~nanoidContinues(Len(gen.code), gen.length)
     ELSE ~fallbackContinues(Len(gen.code), gen.length)
  /\ gen' = [gen EXCEPT !.pc = "done"]
  /\ UNCHANGED <<store, nextId, now, pc, req, resp, log, mw, ui>>

\* the caller has taken the code
generateTaken ==
  /\ gen.pc = "done"
  /\ gen' = IdleGen
  /\ UNCHANGED <<store, nextId, now, pc, req, resp, log, mw, ui>>

(***************************************************************************)
(* Log, requestLogger and errorLogger of the logging middleware.           *)
(***************************************************************************)
STACK_VALUES == {"backend", "frontend"}
LEVEL_VALUES == {"debug", "info", "warn", "error", "fatal"}
BOTH_PACKAGES ==
  {"component", "hook", "page", "state", "style", "auth", "config",
   "middleware", "utils"}
BACKEND_ONLY ==
  {"cache", "controller", "cron_job", "db", "domain", "handler", "repository",
   "route", "service"}
FRONTEND_ONLY == {"api"}

\* an allow-list check that forgets the stack
isValidPackageAnyStack(stack, pkg) ==
  pkg \in BOTH_PACKAGES \cup BACKEND_ONLY \cup FRONTEND_ONLY

isValidPackage(stack, pkg) ==
  IF pkg \in BOTH_PACKAGES THEN TRUE
  ELSE IF stack = "backend" THEN pkg \in BACKEND_ONLY
  ELSE IF stack = "frontend" THEN pkg \in FRONTEND_ONLY
  ELSE FALSE

\* String(x).toLowerCase(), on the words of the model
toLowerCase(word) ==
  CASE word = "BACKEND" -> "backend"
    [] word = "Info" -> "info"
    [] word = "Route" -> "route"
    [] OTHER -> word

\* the arguments pass the checks of Log before the post
LogArgumentsValid(stack, level, pkg) ==
  /\ ~(stack = "" \/ level = "" \/ pkg = "")
  /\ toLowerCase(stack) \in STACK_VALUES
  /\ toLowerCase(level) \in LEVEL_VALUES
  /\ isValidPackage(toLowerCase(stack), toLowerCase(pkg))

\* Log(stack, level, pkg, message, options) up to its await of postJson: it
\* throws, or fetch sends the post
LogCall(stack, level, pkg, suppressErrors, caller) ==
  log' = IF LogArgumentsValid(stack, level, pkg)
         THEN [pc |-> "posting", caller |-> caller, stack |-> stack,
               level |-> level, pkg |-> pkg, suppressErrors |-> suppressErrors,
               posted |-> TRUE, result |-> "none", outcome |-> "none",
               ok |-> FALSE]
         ELSE [pc |-> "settled", caller |-> caller, stack |-> stack,
               level |-> level, pkg |-> pkg, suppressErrors |-> suppressErrors,
               posted |-> FALSE, result |-> "none", outcome |-> "thrown",
               ok |-> FALSE]

Log(stack, level, pkg, suppressErrors) ==
  /\ log.pc = "idle"
  /\ mw.pc = "idle"
  /\ LogCall(stack, level, pkg, suppressErrors, "direct")
  /\ UNCHANGED <<store, nextId, now, pc, req, resp, gen, mw, ui>>

\* the results of fetch: it rejects, or answers with res.ok true or false
PostResults == {"rejected", "ok", "notOk"}

\* the try block after the post, and the catch block
postJson(result) ==
  /\ log.pc = "posting"
  /\ log' = [log EXCEPT
       !.pc = "settled",
       !.result = result,
       !.outcome = IF result = "ok" THEN "returned"
                   ELSE IF log.suppressErrors THEN "returned" ELSE "thrown",
       !.ok = (result = "ok")]
  /\ UNCHANGED <<store, nextId, now, pc, req, resp, gen, mw, ui>>

\* the caller of Log has its promise settled
LogSettled ==
  /\ log.pc = "settled"
  /\ log.caller = "direct"
  /\ log' = IdleLog
  /\ UNCHANGED <<store, nextId, now, pc, req, resp, gen, mw, ui>>

\* a promise without a rejection handler
PromiseCatchMissing(outcome) == outcome

\* promise.catch(() => {}): a rejection is handled and the result fulfils
PromiseCatch(outcome) == IF outcome = "thrown" THEN "returned" ELSE outcome

\* the middleware requestLogger(options) returns, serving a request: it
\* registers the finish listener and calls next()
requestLogger(stack, pkg, level) ==
  /\ mw.pc = "idle"
  /\ log.pc = "idle"
  /\ mw' = [IdleMw EXCEPT !.pc = "listening", !.kind = "request",
                          !.stack = stack, !.pkg = pkg, !.level = level,
                          !.nextCalls = 1]
  /\ UNCHANGED <<store, nextId, now, pc, req, resp, gen, log, ui>>

\* res emits "finish": the listener calls Log(...).catch(() => {})
requestFinish ==
  /\ mw.pc = "listening"
  /\ LogCall(mw.stack, mw.level, mw.pkg, FALSE, "requestLogger")
  /\ mw' = [mw EXCEPT !.pc = "logging"]
  /\ UNCHANGED <<store, nextId, now, pc, req, resp, gen, ui>>

\* the middleware errorLogger(options) returns, serving an error:
\* Log(...).catch(() => {}); next(err)
errorLogger(stack, pkg, level, err) ==
  /\ mw.pc = "idle"
  /\ log.pc = "idle"
  /\ LogCall(stack, level, pkg, FALSE, "errorLogger")
  /\ mw' = [IdleMw EXCEPT !.pc = "logging", !.kind = "error",
                          !.stack = stack, !.pkg = pkg, !.level = level,
                          !.err = {err}, !.nextCalls = 1, !.forwarded = {err}]
  /\ UNCHANGED <<store, nextId, now, pc, req, resp, gen, ui>>

\* the promise of the middleware's Log call settles; a rejection nobody
\* handles reaches process.on("unhandledRejection") and the process exits
middlewareSettled ==
  /\ mw.pc = "logging"
  /\ log.pc = "settled"
  /\ mw' = [mw EXCEPT !.pc = "done", !.logged = log.outcome,
                      !.exited = (PromiseCatch(log.outcome) = "thrown")]
  /\ log' = IdleLog
  /\ UNCHANGED <<store, nextId, now, pc, req, resp, gen, ui>>

\* the request is over
middlewareDone ==
  /\ mw.pc = "done"
  /\ ~mw.exited
  /\ mw' = IdleMw
  /\ UNCHANGED <<store, nextId, now, pc, req, resp, gen, log, ui>>

(***************************************************************************)
(* The component UrlShortener.  The text of an input field is a sequence   *)
(* of characters; the numeric fields hold an optional sign, digits and an  *)
(* optional fraction.                                                      *)
(***************************************************************************)
DigitValue(ch) ==
  CASE ch = "0" -> 0 [] ch = "1" -> 1 [] ch = "2" -> 2 [] ch = "3" -> 3
    [] ch = "4" -> 4 [] ch = "5" -> 5 [] ch = "6" -> 6 [] ch = "7" -> 7
    [] ch = "8" -> 8 [] ch = "9" -> 9

RECURSIVE DigitsValue(_)
DigitsValue(s) ==
  IF s = <<>> THEN 0
  ELSE 10 * DigitsValue(SubSeq(s, 1, Len(s) - 1)) + DigitValue(s[Len(s)])

AllDigits(s) == \A i \in 1..Len(s) : s[i] \in Digits

Negative(text) == text # <<>> /\ text[1] = "-"
Unsigned(text) == IF Negative(text) THEN Tail(text) ELSE text

\* the length of the longest prefix of digits
RECURSIVE DigitPrefix(_)
DigitPrefix(s) ==
  IF s = <<>> \/ s[1] \notin Digits THEN 0 ELSE 1 + DigitPrefix(Tail(s))

\* Number(text) of a non-empty text: NaN, or a number that is an integer or
\* not; value is the number when it is an integer
Number(text) ==
  LET u == Unsigned(text)
      dots == {i \in 1..Len(u) : u[i] = "."}
      dot == IF dots = {} THEN Len(u) + 1
             ELSE CHOOSE i \in dots : \A j \in dots : i <= j
      whole == SubSeq(u, 1, dot - 1)
      fraction == SubSeq(u, dot + 1, Len(u))
      wellFormed == /\ AllDigits(whole)
                    /\ AllDigits(fraction)
                    /\ whole # <<>> \/ fraction # <<>>
      magnitude == IF wellFormed THEN DigitsValue(whole) ELSE 0
  IN [nan |-> ~wellFormed,
      integer |-> wellFormed /\ DigitsValue(fraction) = 0,
      value |-> IF Negative(text) THEN 0 - magnitude ELSE magnitude]

NumberIsInteger(n) == ~n.nan /\ n.integer

\* JSON.stringify writes NaN as null
NullValue == [type |-> "null", value |-> 0]

\* parseInt(text), as JSON.stringify writes it
parseInt(text) ==
  LET u == Unsigned(text)
      k == DigitPrefix(u)
      magnitude == DigitsValue(SubSeq(u, 1, k))
  IN IF k = 0 THEN NullValue
     ELSE NumberValue(IF Negative(text) THEN 0 - magnitude ELSE magnitude)

\* new URL(url) without a base succeeds on every text: no scheme is asked for
isValidUrlInputAnything(url) == TRUE

\* new URL(url) without a base succeeds: after the blanks at both ends are
\* stripped the text starts with a scheme, a letter followed by letters,
\* digits, +, - or . up to a colon; a scheme http or https needs a host
isValidUrlInput(url) ==
  LET t == Trim(url)
      colons == {i \in 1..Len(t) : t[i] = ":"}
      colon == CHOOSE i \in colons : \A j \in colons : i <= j
      scheme == ToLower(SubSeq(t, 1, colon - 1))
      rest == SubSeq(t, colon + 1, Len(t))
      slashes == {i \in 1..Len(rest) : rest[i] \notin {"/"}}
  IN /\ colons # {}
     /\ scheme # <<>>
     /\ scheme[1] \in LowerAlpha \cup UpperAlpha
     /\ \A i \in 1..Len(scheme) :
          scheme[i] \in LowerAlpha \cup UpperAlpha \cup Digits \cup {"+", "-", "."}
     /\ scheme \o <<":">> \in {SubSeq(HTTP, 1, 5), SubSeq(HTTPS, 1, 6)} => slashes # {}

\* a list that is full only above five entries
listIsFullAboveFive(urls) == Len(urls) > 5

\* urls.length >= 5
listIsFull(urls) == Len(urls) >= 5

\* validateInputs: the message it sets, "" when it returns true
validateInputs(u) ==
  IF Trim(u.currentUrl) = <<>>
  THEN "URL is required"
  ELSE IF ~isValidUrlInput(u.currentUrl)
  THEN "Please enter a valid URL format"
  ELSE IF /\ u.validityPeriod # <<>>
          /\ \/ ~NumberIsInteger(Number(u.validityPeriod))
             \/ Number(u.validityPeriod).value <= 0
  THEN "Validity period must be a positive integer (in minutes)"
  ELSE IF /\ u.preferredShortcode # <<>>
          /\ \/ ~NumberIsInteger(Number(u.preferredShortcode))
             \/ Number(u.preferredShortcode).value <= 0
  THEN "Preferred shortcode must be a positive integer"
  ELSE IF listIsFull(u.urls)
  THEN "Maximum 5 URLs can be shortened concurrently"
  ELSE ""

\* the body of the POST: validity and shortcode are there when their fields
\* are not empty
requestBody(u) ==
  [url |-> {u.currentUrl},
   validity |-> IF u.validityPeriod # <<>>
                THEN {parseInt(u.validityPeriod)} ELSE {},
   shortcode |-> IF u.preferredShortcode # <<>>
                 THEN {parseInt(u.preferredShortcode)} ELSE {}]

\* the onChange handlers of the three fields
setCurrentUrl(value) ==
  /\ ui' = [ui EXCEPT !.currentUrl = value]
  /\ UNCHANGED <<store, nextId, now, pc, req, resp, gen, log, mw>>

setValidityPeriod(value) ==
  /\ ui' = [ui EXCEPT !.validityPeriod = value]
  /\ UNCHANGED <<store, nextId, now, pc, req, resp, gen, log, mw>>

setPreferredShortcode(value) ==
  /\ ui' = [ui EXCEPT !.preferredShortcode = value]
  /\ UNCHANGED <<store, nextId, now, pc, req, resp, gen, log, mw>>

\* a click on the button, which is disabled while loading: handleShortenUrl
\* up to its return or to the await of fetch
handleShortenUrl ==
  /\ ~ui.loading
  /\ ui' = IF validateInputs(ui) # ""
           THEN [ui EXCEPT !.error = validateInputs(ui), !.success = ""]
           ELSE [ui EXCEPT !.error = "", !.success = "", !.loading = TRUE,
                           !.pc = "fetching", !.requestBody = requestBody(ui)]
  /\ UNCHANGED <<store, nextId, now, pc, req, resp, gen, log, mw>>

\* fetch rejects, answers with response.ok false, answers with response.ok
\* true and a JSON body, or with response.ok true and a body that is no JSON
FetchOutcomes == {"rejected", "notOk", "ok", "okNotJson"}

\* the message of the error the try block throws
FetchErrorMessage(outcome) ==
  CASE outcome = "rejected" -> "Failed to shorten URL: Failed to fetch"
    [] outcome = "notOk" -> "Failed to shorten URL: HTTP error! status"
    [] outcome = "okNotJson" -> "Failed to shorten URL: Unexpected token"

\* handleShortenUrl from the await of fetch to the end of the finally block
fetchSettled(outcome) ==
  /\ ui.pc = "fetching"
  /\ ui' = IF outcome = "ok"
           THEN [ui EXCEPT
                  !.pc = "idle",
                  !.urls = Append(ui.urls,
                    [id |-> now,
                     originalUrl |-> CHOOSE url \in ui.requestBody.url : TRUE]),
                  !.success = "URL shortened successfully!",
                  !.currentUrl = <<>>,
                  !.validityPeriod = <<>>,
                  !.preferredShortcode = <<>>,
                  !.loading = FALSE,
                  !.requestBody = NoRequestBody]
           ELSE [ui EXCEPT
                  !.pc = "idle",
                  !.error = FetchErrorMessage(outcome),
                  !.loading = FALSE,
                  !.requestBody = NoRequestBody]
  /\ UNCHANGED <<store, nextId, now, pc, req, resp, gen, log, mw>>

\* deleteUrl(id) of the component, on the button of a listed entry
deleteUrlFromList(id) ==
  /\ \E i \in 1..Len(ui.urls) : ui.urls[i].id = id
  /\ ui' = [ui EXCEPT !.urls = SelectSeq(ui.urls, LAMBDA url : url.id # id),
                      !.success = "URL removed from list"]
  /\ UNCHANGED <<store, nextId, now, pc, req, resp, gen, log, mw>>

\* isValidShortCode on a JSON value: typeof shortCode !== "string" is false
isValidShortCodeValue(shortCode) ==
  IF shortCode.type # "string" THEN FALSE ELSE isValidShortCode(shortCode.value)

\* validateShortenRequest on the body the component posts
validateShortenRequestPosted(body) ==
  /\ validateShortenRequest([body EXCEPT !.shortcode = {}])
  /\ \A shortcode \in body.shortcode : isValidShortCodeValue(shortcode)

(***************************************************************************)
(* Specifications.  The bounds of the model are guards of the next-state   *)
(* relations, not of the handlers.                                         *)
(***************************************************************************)
\* a new request may still insert a document
MayInsert(limit) ==
  nextId + Cardinality({q \in Procs : pc[q] \in CreatePcs}) <= limit

\* a new redirect may still count a click
RECURSIVE SumClicks(_)
SumClicks(docs) ==
  IF docs = {} THEN 0
  ELSE LET r == CHOOSE d \in docs : TRUE IN r.clicks + SumClicks(docs \ {r})

MayClick ==
  SumClicks(store) + Cardinality({q \in Procs : pc[q] = "redirect"}) < MaxClicks

AllIdle == \A q \in Procs : pc[q] = "idle"

Quiet(p) == \A q \in Procs \ {p} : pc[q] = "idle"

\* nothing else is observed while a response is on its way to the client
Delivered == resp = NoResponse

\* Requests are served one at a time, each within one tick of the clock: a
\* request runs to its response before the next one starts.
Turn(p) == Delivered /\ Quiet(p)

SeqNext ==
  \/ Deliver
  \/ Delivered /\ AllIdle /\ now < MaxTime /\ Tick
  \/ Delivered /\ AllIdle /\ cleanupExpiredUrls
  \/ \E p \in SeqProcs, body \in Bodies :
       Turn(p) /\ MayInsert(MaxRecords) /\ createBegin(p, body)
  \/ \E p \in SeqProcs : Turn(p) /\ createDedup(p)
  \/ \E p \in SeqProcs : Turn(p) /\ createCustom(p)
  \/ \E p \in SeqProcs : Turn(p) /\ createGenerate(p)
  \/ \E p \in SeqProcs : Turn(p) /\ createCatch(p)
  \/ \E p \in SeqProcs, shortCode \in Codes :
       Turn(p) /\ MayClick /\ redirectFind(p, shortCode)
  \/ \E p \in SeqProcs : Turn(p) /\ redirectSave(p)
  \/ \E p \in SeqProcs, shortCode \in Codes : Turn(p) /\ getUrlStats(p, shortCode)
  \/ \E p \in SeqProcs, shortCode \in Codes : Turn(p) /\ deleteUrl(p, shortCode)
  \/ \E p \in SeqProcs, shortCode \in Codes, isActive \in IsActiveInputs :
       Turn(p) /\ updateUrlStatus(p, shortCode, isActive)
  \/ \E p \in SeqProcs : Turn(p) /\ getAllUrls(p, DefaultQuery)

SeqSpec == Init /\ [][SeqNext]_vars

\* Shorten requests for two URLs, served one at a time, with room for a third
\* document.
DedupUrls == {{UrlA}, {UrlHttpA}, {UrlPaddedB}}
DedupShortcodes == {{}, {CodeAbc}}
DedupValidities == {{}, {NumberValue(1)}}
DedupBodies ==
  [url : DedupUrls, validity : DedupValidities, shortcode : DedupShortcodes]

DedupNext ==
  \/ Deliver
  \/ Delivered /\ AllIdle /\ now < MaxTime /\ Tick
  \/ Delivered /\ AllIdle /\ cleanupExpiredUrls
  \/ \E p \in SeqProcs, body \in DedupBodies :
       Turn(p) /\ MayInsert(MaxDedupRecords) /\ createBegin(p, body)
  \/ \E p \in SeqProcs : Turn(p) /\ createDedup(p)
  \/ \E p \in SeqProcs : Turn(p) /\ createCustom(p)
  \/ \E p \in SeqProcs : Turn(p) /\ createGenerate(p)
  \/ \E p \in SeqProcs : Turn(p) /\ createCatch(p)

DedupSpec == Init /\ [][DedupNext]_vars

\* Shorten requests with every kind of body, served one at a time.
ShortenUrls == {{}, {<<>>}, {UrlA}, {UrlPaddedB}, {UrlBlank}, {UrlUpperA}}
ShortenShortcodes == {{}, {<<>>}, {CodeAbc}, {CodeShort}, {CodeBang}}
ShortenValidities ==
  {{}, {NumberValue(0)}, {NumberValue(1)}, {NumberValue(VALIDITY_MAX)},
   {NumberValue(VALIDITY_MAX + 1)}, {StringValue(0)}, {StringValue(1)},
   {TextValue}}
ShortenBodies ==
  [url : ShortenUrls, validity : ShortenValidities, shortcode : ShortenShortcodes]

ShortenNext ==
  \/ Deliver
  \/ Delivered /\ AllIdle /\ now < MaxTime /\ Tick
  \/ Delivered /\ AllIdle /\ cleanupExpiredUrls
  \/ \E p \in SeqProcs, body \in ShortenBodies :
       Turn(p) /\ MayInsert(MaxRecords) /\ createBegin(p, body)
  \/ \E p \in SeqProcs : Turn(p) /\ createDedup(p)
  \/ \E p \in SeqProcs : Turn(p) /\ createCustom(p)
  \/ \E p \in SeqProcs : Turn(p) /\ createGenerate(p)
  \/ \E p \in SeqProcs : Turn(p) /\ createCatch(p)

ShortenSpec == Init /\ [][ShortenNext]_vars

\* List requests with every kind of query, served one at a time between
\* shorten and setActive requests.
ListUrls == {{UrlA}, {UrlPaddedB}}
ListValidities == {{}, {NumberValue(1)}}
ListBodies == [url : ListUrls, validity : ListValidities, shortcode : {{}}]
ListIsActive == {[type |-> "boolean", value |-> FALSE]}

ListNext ==
  \/ Deliver
  \/ Delivered /\ AllIdle /\ now < MaxTime /\ Tick
  \/ \E p \in SeqProcs, body \in ListBodies :
       Turn(p) /\ MayInsert(MaxRecords) /\ createBegin(p, body)
  \/ \E p \in SeqProcs : Turn(p) /\ createDedup(p)
  \/ \E p \in SeqProcs : Turn(p) /\ createGenerate(p)
  \/ \E p \in SeqProcs : Turn(p) /\ createCatch(p)
  \/ \E p \in SeqProcs, shortCode \in GenCodes, isActive \in ListIsActive :
       Turn(p) /\ updateUrlStatus(p, shortCode, isActive)
  \/ \E p \in SeqProcs, query \in Queries : Turn(p) /\ getAllUrls(p, query)

ListSpec == Init /\ [][ListNext]_vars

\* Requests are served concurrently: the steps of two requests interleave in
\* any order, and the clock ticks between any two steps.
ConcUrls == {{UrlA}, {UrlPaddedB}}
ConcShortcodes == {{}, {CodeAbc}}
ConcValidities == {{NumberValue(1)}}
ConcBodies == [url : ConcUrls, validity : ConcValidities, shortcode : ConcShortcodes]
ConcCodes == {CodeAbc, CodeGen1}
ConcIsActive == {a \in IsActiveInputs : a.type = "boolean"}

Next ==
  \/ Deliver
  \/ Delivered /\ now < MaxTime /\ Tick
  \/ Delivered /\ cleanupExpiredUrls
  \/ \E p \in Procs, body \in ConcBodies :
       Delivered /\ MayInsert(MaxRecords) /\ createBegin(p, body)
  \/ \E p \in Procs : Delivered /\ createDedup(p)
  \/ \E p \in Procs : Delivered /\ createCustom(p)
  \/ \E p \in Procs : Delivered /\ createGenerate(p)
  \/ \E p \in Procs : Delivered /\ createCatch(p)
  \/ \E p \in Procs, shortCode \in ConcCodes :
       Delivered /\ MayClick /\ redirectFind(p, shortCode)
  \/ \E p \in Procs : Delivered /\ redirectSave(p)
  \/ \E p \in Procs, shortCode \in ConcCodes : Delivered /\ getUrlStats(p, shortCode)
  \/ \E p \in Procs, shortCode \in ConcCodes : Delivered /\ deleteUrl(p, shortCode)
  \/ \E p \in Procs, shortCode \in ConcCodes, isActive \in ConcIsActive :
       Delivered /\ updateUrlStatus(p, shortCode, isActive)
  \/ \E p \in Procs : Delivered /\ getAllUrls(p, DefaultQuery)

Spec == Init /\ [][Next]_vars

\* Calls of generateShortCode beside shorten requests served one at a time.
CodeLong ==
  <<"a", "a", "a", "a", "a", "a", "a", "a", "a", "a", "a",
    "a", "a", "a", "a", "a", "a", "a", "a", "a", "a">>
GenUrls == {{UrlA}, {UrlPaddedB}, {UrlUpperA}}
GenShortcodes == {{}, {CodeAbc}, {CodeShort}, {CodeBang}, {CodeLong}}
GenBodies == [url : GenUrls, validity : {{}}, shortcode : GenShortcodes]

GenNext ==
  \/ Deliver
  \/ \E p \in SeqProcs, body \in GenBodies :
       Turn(p) /\ gen.pc = "idle" /\ MayInsert(MaxDedupRecords) /\ createBegin(p, body)
  \/ \E p \in SeqProcs : Turn(p) /\ createDedup(p)
  \/ \E p \in SeqProcs : Turn(p) /\ createCustom(p)
  \/ \E p \in SeqProcs : Turn(p) /\ createGenerate(p)
  \/ \E p \in SeqProcs : Turn(p) /\ createCatch(p)
  \/ \E length \in GenLengths, importFails \in BOOLEAN :
       Delivered /\ AllIdle /\ generateShortCode(length, importFails)
  \/ \E ch \in RandomDraws : nanoidDraw(ch)
  \/ \E ch \in RandomDraws : generateFallbackShortCode(ch)
  \/ generateReturn
  \/ generateTaken

GenSpec == Init /\ [][GenNext]_vars

\* Calls of Log, and requests through requestLogger and errorLogger with the
\* default options and with the options of app.js.
LogStacks == {"backend", "frontend", "BACKEND", "", "url-shortener-backend"}
LogLevels == {"info", "fatal", "trace", "", "Info"}
LogPackages == {"route", "api", "component", "express-server", ""}
RequestLoggerOptions ==
  {[stack |-> "backend", pkg |-> "route", level |-> "info"],
   [stack |-> "url-shortener-backend", pkg |-> "express-server", level |-> "info"]}
ErrorLoggerOptions ==
  {[stack |-> "backend", pkg |-> "handler", level |-> "error"],
   [stack |-> "url-shortener-backend", pkg |-> "express-server", level |-> "error"]}
Errors == {"Boom", ""}

LogNext ==
  \/ \E stack \in LogStacks, level \in LogLevels, pkg \in LogPackages,
        suppressErrors \in BOOLEAN : Log(stack, level, pkg, suppressErrors)
  \/ \E result \in PostResults : postJson(result)
  \/ LogSettled
  \/ \E o \in RequestLoggerOptions : requestLogger(o.stack, o.pkg, o.level)
  \/ requestFinish
  \/ \E o \in ErrorLoggerOptions, err \in Errors :
       errorLogger(o.stack, o.pkg, o.level, err)
  \/ middlewareSettled
  \/ middlewareDone

LogSpec == Init /\ [][LogNext]_vars

\* The component under typing, clicks, answers of the service and deletions.
UrlHttpsA == HTTPS \o <<"a">>
UiUrls == {<<>>, UrlBlank, UrlA, UrlHttpsA}
UiValidities ==
  {<<>>, <<"5">>, <<"0">>, <<"1", ".", "5">>, <<"9", "9", "9", "9", "9", "9">>}
UiShortcodes == {<<>>, <<"1", "2", "3">>, <<"-", "3">>}

UiNext ==
  \/ now < MaxTime /\ Tick
  \/ \E value \in UiUrls : setCurrentUrl(value)
  \/ \E value \in UiValidities : setValidityPeriod(value)
  \/ \E value \in UiShortcodes : setPreferredShortcode(value)
  \/ handleShortenUrl
  \/ \E outcome \in FetchOutcomes : fetchSettled(outcome)
  \/ \E id \in 0..MaxTime : deleteUrlFromList(id)

UiSpec == Init /\ [][UiNext]_vars

(***************************************************************************)
(* Vocabulary of the properties.                                           *)
(***************************************************************************)
\* r is active and not expired in the current state
Live(r) == r.isActive /\ now <= r.expiry

\* the documents holding a short code / an original URL
Holding(shortCode) == {r \in store : r.shortCode = shortCode}
Shortening(originalUrl) == {r \in store : r.originalUrl = originalUrl}

\* this step sends the response to a request for operation op
Answers(op) == resp = NoResponse /\ resp' # NoResponse /\ resp'.op = op

\* this step sends the response of the shorten request of slot p, which has
\* passed validation
AnswersShorten(p) == Answers("shorten") /\ resp'.p = p /\ pc[p] \in CreatePcs

ConflictAnswer(r) ==
  r.status = 400 /\ r.error = "Custom shortcode already exists and is active"

(***************************************************************************)
(* C1.  Idempotent dedup: a shorten request for a URL that an active,      *)
(* unexpired document already shortens is answered 200 existing:true with  *)
(* the code of such a document, and the store is left as it was, whatever  *)
(* else the store holds (older expired documents of the URL included).     *)
(***************************************************************************)
C1_DedupReturnsLiveCode ==
  [][\A p \in Procs :
       (AnswersShorten(p) /\ \E r \in Shortening(req[p].sanitizedUrl) : Live(r))
       => /\ resp'.status = 200
          /\ resp'.existing
          /\ \E r \in Shortening(req[p].sanitizedUrl) :
               Live(r) /\ r.shortCode = resp'.shortCode
          /\ store' = store]_vars

(***************************************************************************)
(* C2.  A resolve of a code held by an inactive document answers 404; a    *)
(* stats request answers 200 with the document whenever some document,     *)
(* active or not, holds the code, and 404 only when none does.             *)
(***************************************************************************)
C2_StatsIgnoresActiveFlag ==
  /\ (resp.op = "resolve" /\ \E r \in Holding(resp.param) : ~r.isActive)
       => resp.status = 404
  /\ resp.op = "stats"
       => IF Holding(resp.param) # {}
          THEN resp.status = 200 /\ resp.docs = Holding(resp.param)
          ELSE resp.status = 404

(***************************************************************************)
(* C3.  setActive(code, b): a non-boolean b is answered 400 and nothing    *)
(* changes; a boolean b is answered 200 and leaves isActive = b whenever a *)
(* document holds the code, whatever its isActive was, and is answered 404 *)
(* only when no document holds the code.                                   *)
(***************************************************************************)
C3_SetActiveReachesEveryRecord ==
  [][Answers("setActive")
     => \A isActive \in resp'.arg :
          IF isActive.type # "boolean"
          THEN resp'.status = 400 /\ store' = store
          ELSE IF Holding(resp'.param) # {}
          THEN /\ resp'.status = 200
               /\ \A r \in store' :
                    r.shortCode = resp'.param => r.isActive = isActive.value
          ELSE resp'.status = 404]_vars

(***************************************************************************)
(* C4.  remove(code) deletes the document holding the code whenever there  *)
(* is one (active, inactive or expired): it answers 200 and no document    *)
(* holds the code afterwards; it answers 404 only when none holds it.      *)
(***************************************************************************)
C4_RemoveIsUnconditional ==
  [][Answers("remove")
     => IF Holding(resp'.param) # {}
        THEN /\ resp'.status = 200
             /\ \A r \in store' : r.shortCode # resp'.param
        ELSE resp'.status = 404]_vars

(***************************************************************************)
(* C5.  A resolve of a code held by an active, unexpired document, served  *)
(* without interference, answers 301 to the document's originalUrl, adds   *)
(* exactly 1 to its clicks, sets its lastAccessed to a time not earlier    *)
(* than the previous one, and changes nothing else.                        *)
(***************************************************************************)
C5_ResolveCountsOneClick ==
  [][Answers("resolve")
     => \A r \in Holding(resp'.param) :
          Live(r)
          => /\ resp'.status = 301
             /\ resp'.originalUrl = r.originalUrl
             /\ \E x \in store' :
                  /\ x = [r EXCEPT !.clicks = r.clicks + 1,
                                   !.lastAccessed = x.lastAccessed]
                  /\ x.lastAccessed # NoTime
                  /\ x.lastAccessed >= r.lastAccessed
                  /\ store' = (store \ {r}) \cup {x}]_vars

\* a second redirect of a document has been answered
C5_Witness ==
  /\ resp.op = "resolve"
  /\ resp.status = 301
  /\ \E r \in Holding(resp.param) : r.clicks = 2 /\ r.lastAccessed = now

(***************************************************************************)
(* C6.  A resolve of a code held by an active document whose expiry is in  *)
(* the past answers 410 "expired", which is not the 404 of an unknown      *)
(* code, and leaves the store (clicks and lastAccessed included) as it was.*)
(***************************************************************************)
C6_ExpiredResolveIsGone ==
  [][(Answers("resolve")
        /\ \E r \in Holding(resp'.param) : r.isActive /\ now > r.expiry)
     => /\ resp'.status = 410
        /\ resp'.error = "Short URL has expired"
        /\ resp'.status # 404
        /\ store' = store]_vars

\* an expired document that had been clicked was asked for again
C6_Witness ==
  /\ resp.op = "resolve"
  /\ resp.status = 410
  /\ \E r \in Holding(resp.param) : r.isActive /\ now > r.expiry /\ r.clicks = 1

(***************************************************************************)
(* C7.  A resolve of a code held by an inactive document answers 410, not  *)
(* the 404 given for a code no document holds.                             *)
(***************************************************************************)
C7_InactiveResolveIsGone ==
  (resp.op = "resolve" /\ \E r \in Holding(resp.param) : ~r.isActive)
    => resp.status = 410

(***************************************************************************)
(* C8.  A shorten request with custom code c for a URL other than that of  *)
(* the active, unexpired document holding c creates no document and leaves *)
(* the store as it was.  It is answered with the conflict error 400 unless *)
(* deduplication answers it first: when an active, unexpired document of   *)
(* the requested URL exists the answer may be 200 existing:true with the   *)
(* code of such a document.                                                *)
(***************************************************************************)
\* the custom code of slot p's shorten request is held by a live document of
\* another URL
CustomCodeTaken(p) ==
  \E c \in req[p].shortcode : \E r \in Holding(c) :
    Live(r) /\ r.originalUrl # req[p].sanitizedUrl

C8_TakenCodeConflictsOrDedups ==
  [][\A p \in Procs :
       (AnswersShorten(p) /\ CustomCodeTaken(p))
       => /\ store' = store
          /\ \/ ConflictAnswer(resp')
             \/ /\ resp'.status = 200
                /\ resp'.existing
                /\ \E e \in Shortening(req[p].sanitizedUrl) :
                     Live(e) /\ e.shortCode = resp'.shortCode
          /\ (\A e \in Shortening(req[p].sanitizedUrl) : ~Live(e))
               => ConflictAnswer(resp')]_vars

\* C8 as claimed: such a request is always rejected with a conflict error
C8_TakenCodeAlwaysConflicts ==
  [][\A p \in Procs :
       (AnswersShorten(p) /\ CustomCodeTaken(p))
       => /\ store' = store
          /\ ConflictAnswer(resp') \/ resp'.status = 409]_vars

\* a custom code was refused while a live document holds a code
C8_Witness ==
  /\ resp.op = "shorten"
  /\ ConflictAnswer(resp)
  /\ \E r \in store : Live(r) /\ r.shortCode = CodeAbc

(***************************************************************************)
(* C9.  A shorten request with custom code c, for a URL no active,         *)
(* unexpired document shortens, while every document holding c is expired  *)
(* or inactive, is answered 201 and a new document holding c is stored.    *)
(***************************************************************************)
C9_StaleCodeIsReusable ==
  [][\A p \in Procs :
       (/\ AnswersShorten(p)
        /\ \A e \in Shortening(req[p].sanitizedUrl) : ~Live(e)
        /\ \E c \in req[p].shortcode :
             Holding(c) # {} /\ \A r \in Holding(c) : ~Live(r))
       => /\ resp'.status = 201
          /\ \E d \in store' \ store :
               d.shortCode \in req[p].shortcode
               /\ d.originalUrl = req[p].sanitizedUrl]_vars

(***************************************************************************)
(* C10.  Under any interleaving of shorten, resolve, setActive, remove and *)
(* cleanup requests no two documents of the store hold the same shortCode. *)
(***************************************************************************)
C10_UniqueShortCodes ==
  \A r1 \in store : \A r2 \in store : r1.shortCode = r2.shortCode => r1 = r2

\* two interleaved shorten requests chose the same code and the unique index
\* has refused the second insert: every stored document is active, unexpired
C10_Witness ==
  /\ resp.op = "shorten"
  /\ resp.status = 409
  /\ store # {}
  /\ \A r \in store : Live(r)

(***************************************************************************)
(* C11.  Without a custom code, shorten fails with the generation error    *)
(* only if all 10 generated candidates collide: the request that gives up  *)
(* has generated 10 candidates and a document holds the tenth.             *)
(***************************************************************************)
C11_GivesUpOnlyAfterTenCollisions ==
  [][\A p \in Procs :
       (AnswersShorten(p) /\ pc[p] = "thrown")
       => req[p].attempts = 10 /\ Holding(req[p].shortCode) # {}]_vars

(***************************************************************************)
(* C12.  A shorten request without a custom code is never answered with    *)
(* the conflict error 409: a generated candidate that any document holds,  *)
(* an inactive or expired one included, is a collision and is retried.     *)
(***************************************************************************)
C12_GenerationNeverConflicts ==
  [][\A p \in Procs :
       (AnswersShorten(p) /\ req[p].body.shortcode = {})
       => resp'.status # 409]_vars

(***************************************************************************)
(* C13.  A shorten request that gives up generating is answered 500, and   *)
(* no step of a shorten request served alone, other than the one answered  *)
(* 201, changes the store: the store is as it was before the request.      *)
(***************************************************************************)
C13_GivingUpLeavesStore ==
  [][\A p \in SeqProcs :
       /\ (AnswersShorten(p) /\ pc[p] = "thrown")
            => resp'.status = 500 /\ store' = store
       /\ (pc'[p] \in CreatePcs \/ (AnswersShorten(p) /\ resp'.status # 201))
            => store' = store]_vars

\* a request has given up while the store holds a document
C13_Witness ==
  /\ resp.op = "shorten"
  /\ resp.status = 500
  /\ resp.error = "Internal server error"
  /\ store # {}

(***************************************************************************)
(* C14.  A shorten request is accepted only if its url is given and is an  *)
(* absolute http/https URL after sanitization, its validity, when given,   *)
(* is a number within 1..525600, and its custom code, when given, has 3 to *)
(* 20 characters of [A-Za-z0-9_-].  Every other request is answered 400 in *)
(* its first step, before the store is read, and the store is unchanged.   *)
(***************************************************************************)
\* s is an absolute http or https URL
AbsoluteHttpUrl(s) ==
  \E scheme \in {HTTP, HTTPS} :
    /\ Len(s) > Len(scheme)
    /\ SubSeq(ToLower(s), 1, Len(scheme)) = scheme
    /\ \A i \in Len(scheme) + 1..Len(s) : s[i] # " "

Acceptable(body) ==
  /\ body.url # {}
  /\ \A url \in body.url : AbsoluteHttpUrl(sanitizeUrl(url))
  /\ \A validity \in body.validity :
       validity.type # "text" /\ validity.value \in 1..525600
  /\ \A shortcode \in body.shortcode :
       /\ Len(shortcode) \in 3..20
       /\ \A i \in 1..Len(shortcode) :
            shortcode[i] \in LowerAlpha \cup UpperAlpha \cup Digits \cup {"_", "-"}

C14_InvalidRequestsRejectedFirst ==
  [][\A p \in Procs :
       /\ (pc[p] = "idle" /\ pc'[p] \in CreatePcs) => Acceptable(req'[p].body)
       /\ (Answers("shorten") /\ resp'.p = p /\ pc[p] = "idle")
            => /\ resp'.status = 400
               /\ resp'.error = "Validation failed"
               /\ store' = store]_vars

\* a request has been rejected by validation while the store holds a document
C14_Witness ==
  /\ resp.op = "shorten"
  /\ resp.status = 400
  /\ resp.error = "Validation failed"
  /\ store # {}

(***************************************************************************)
(* C15.  Every document a shorten request creates has the requested        *)
(* validity (30 when none is given), a number within 1..525600, and an     *)
(* expiry equal to its creation time plus that many minutes.               *)
(***************************************************************************)
C15_ExpiryIsCreationPlusValidity ==
  [][\A p \in Procs :
       (AnswersShorten(p) /\ resp'.status = 201)
       => \A d \in store' \ store :
            /\ d.createdAt = now
            /\ d.validity \in 1..525600
            /\ d.validity = IF req[p].body.validity = {} THEN 30
                            ELSE (CHOOSE v \in req[p].body.validity : TRUE).value
            /\ d.expiry = d.createdAt + d.validity]_vars

(***************************************************************************)
(* C17.  A list request whose includeExpired parameter is omitted or is    *)
(* sent with the value false returns no document whose expiry is earlier   *)
(* than now.                                                               *)
(***************************************************************************)
C17_ExpiredExcludedUnlessAsked ==
  resp.op = "list"
    => \A query \in resp.arg :
         query.includeExpired \in {{}, {"false"}}
         => \A i \in 1..Len(resp.page.urls) : ~(resp.page.urls[i].expiry < now)

(***************************************************************************)
(* C18.  For a list request with page >= 1 and limit >= 1: totalPages is   *)
(* the ceiling of totalItems / limit, hasNextPage is page < totalPages,    *)
(* hasPrevPage is page > 1, and the page holds at most limit documents,    *)
(* those at positions (page-1)*limit+1 .. page*limit of the listed         *)
(* documents in the requested order (by default newest-created first).     *)
(***************************************************************************)
\* the least n with n * limit >= total
Ceiling(total, limit) ==
  CHOOSE n \in 0..total : n * limit >= total /\ \A m \in 0..total : m * limit >= total => n <= m

C18_PaginationArithmetic ==
  resp.op = "list"
    => \A query \in resp.arg :
         LET page == IF query.page = {} THEN 1 ELSE CHOOSE n \in query.page : TRUE
             limit == IF query.limit = {} THEN 10
                      ELSE CHOOSE n \in query.limit : TRUE
             sortBy == IF query.sortBy = {} THEN "createdAt"
                       ELSE CHOOSE f \in query.sortBy : TRUE
             sortOrder == IF query.sortOrder = {} THEN "desc"
                          ELSE CHOOSE o \in query.sortOrder : TRUE
             listed == PreFind(QueryFilter(store, query, now))
             urls == resp.page.urls
         IN (page >= 1 /\ limit >= 1)
            => /\ resp.status = 200
               /\ resp.page.totalPages = Ceiling(resp.page.totalItems, limit)
               /\ resp.page.hasNextPage <=> page < resp.page.totalPages
               /\ resp.page.hasPrevPage <=> page > 1
               /\ Len(urls) <= limit
               /\ \E order \in Sorted(listed, sortBy, sortOrder) :
                    /\ Len(urls) = Cardinality(((page - 1) * limit + 1..page * limit)
                                                 \cap (1..Len(order)))
                    /\ \A i \in 1..Len(urls) : urls[i] = order[(page - 1) * limit + i]

\* the second page of one document each, of two listed documents
C18_Witness ==
  /\ resp.op = "list"
  /\ resp.page.currentPage = 2
  /\ resp.page.itemsPerPage = 1
  /\ resp.page.totalItems = 2
  /\ Len(resp.page.urls) = 1
  /\ resp.page.hasPrevPage
  /\ ~resp.page.hasNextPage

(***************************************************************************)
(* C16.  The expiry of a document never changes after its creation; every  *)
(* resolve of the code of a document created at t with validity v, made    *)
(* later than t + v, gets the expired answer 410; and a stats request for  *)
(* the code of an expired document is answered 200 as long as the document *)
(* is stored.                                                              *)
(***************************************************************************)
C16_ExpiredStaysExpired ==
  [][/\ \A r \in store : \A x \in store' : x.id = r.id => x.expiry = r.expiry
     /\ Answers("resolve")
          => \A r \in Holding(resp'.param) :
               now > r.createdAt + r.validity
               => resp'.status = 410 /\ resp'.error = "Short URL has expired"
     /\ Answers("stats")
          => \A r \in Holding(resp'.param) :
               now > r.expiry => resp'.status = 200]_vars

(***************************************************************************)
(* C19.  A document is added only by a shorten request answered 201.  The  *)
(* originalUrl, shortCode, validity, expiry and createdAt of a document    *)
(* never change; clicks and lastAccessed change only in the step that      *)
(* answers a resolve of its code, which leaves isActive alone; isActive    *)
(* changes only in the step that answers a setActive of its code, which    *)
(* leaves clicks and lastAccessed alone; and a document disappears only    *)
(* in the step that answers a remove of its code or, once its expiry has   *)
(* passed, in a cleanup sweep.                                             *)
(***************************************************************************)
C19_Frame ==
  [][/\ \A x \in store' :
          (\A r \in store : r.id # x.id)
          => Answers("shorten") /\ resp'.status = 201
     /\ \A r \in store : \A x \in store' :
          x.id = r.id
          => /\ x.originalUrl = r.originalUrl
             /\ x.shortCode = r.shortCode
             /\ x.validity = r.validity
             /\ x.expiry = r.expiry
             /\ x.createdAt = r.createdAt
             /\ (x.clicks # r.clicks \/ x.lastAccessed # r.lastAccessed)
                  => /\ Answers("resolve")
                     /\ resp'.param = r.shortCode
                     /\ x.isActive = r.isActive
             /\ x.isActive # r.isActive
                  => /\ Answers("setActive")
                     /\ resp'.param = r.shortCode
                     /\ x.clicks = r.clicks
                     /\ x.lastAccessed = r.lastAccessed
     /\ \A r \in store :
          (\A x \in store' : x.id # r.id)
          => \/ Answers("remove") /\ resp'.param = r.shortCode
             \/ r.expiry < now /\ UNCHANGED <<pc, req, resp, now>>]_vars

\* a document that has been clicked has been deactivated
C19_Witness ==
  /\ resp.op = "setActive"
  /\ resp.status = 200
  /\ \E r \in Holding(resp.param) :
       r.clicks = 1 /\ ~r.isActive /\ r.lastAccessed # NoTime

(***************************************************************************)
(* C20.  No click is lost: every step that answers a resolve with the 301  *)
(* redirect leaves the clicks of the document holding the code exactly 1   *)
(* higher than they were before the step, in any interleaving of the read  *)
(* and save steps of the requests.                                         *)
(***************************************************************************)
C20_EveryRedirectCounts ==
  [][(Answers("resolve") /\ resp'.status = 301)
     => \A r \in Holding(resp'.param) :
          \E x \in store' : x.id = r.id /\ x.clicks = r.clicks + 1]_vars

(***************************************************************************)
(* C21.  Shorten requests that race for one custom code: a request whose   *)
(* existence check of its custom code c has passed (it found no active,    *)
(* unexpired document holding c) and whose save comes after another        *)
(* request has stored a document holding c is answered 409 and stores      *)
(* nothing; only a request that saves while no document holds c is         *)
(* answered 201, and then exactly its new document holds c.                *)
(***************************************************************************)
C21_RacingCustomCodes ==
  [][\A p \in Procs :
       (/\ AnswersShorten(p)
        /\ pc[p] = "custom"
        /\ \A e \in req[p].found : ~(e.isActive /\ now <= e.expiry))
       => \A c \in req[p].shortcode :
            IF Holding(c) # {}
            THEN resp'.status = 409 /\ store' = store
            ELSE /\ resp'.status = 201
                 /\ resp'.shortCode = c
                 /\ Cardinality({r \in store' : r.shortCode = c}) = 1
                 /\ store \subseteq store']_vars

\* one of two requests for different URLs that both found the custom code
\* free has been answered 201; the other has yet to save
C21_Witness ==
  /\ resp.op = "shorten"
  /\ resp.status = 201
  /\ resp.shortCode = CodeAbc
  /\ \E q \in Procs :
       /\ pc[q] = "custom"
       /\ req[q].found = {}
       /\ req[q].shortcode = {CodeAbc}
       /\ req[q].sanitizedUrl # resp.originalUrl

(***************************************************************************)
(* C27.  Deduplication comes before the custom code and has no side        *)
(* effect: a shorten request for URL u with custom code c, made while an   *)
(* active, unexpired document of u holds a code d other than c, is         *)
(* answered 200 existing:true with the code of such a document, and the    *)
(* store is left as it was (no document holding c is added).               *)
(***************************************************************************)
C27_DedupBeforeCustomCode ==
  [][\A p \in Procs :
       \A c \in req[p].shortcode :
         (/\ AnswersShorten(p)
          /\ \E r \in Shortening(req[p].sanitizedUrl) : Live(r) /\ r.shortCode # c)
         => /\ resp'.status = 200
            /\ resp'.existing
            /\ resp'.shortCode # c
            /\ \E r \in Shortening(req[p].sanitizedUrl) :
                 Live(r) /\ r.shortCode = resp'.shortCode
            /\ {r \in store' : r.shortCode = c} = Holding(c)
            /\ store' = store]_vars

(***************************************************************************)
(* C28.  Under any interleaving of requests at most one active, unexpired  *)
(* document exists for an originalUrl.                                     *)
(***************************************************************************)
C28_OneLiveDocumentPerUrl ==
  \A r1 \in store : \A r2 \in store :
    (r1.originalUrl = r2.originalUrl /\ Live(r1) /\ Live(r2)) => r1 = r2

(***************************************************************************)
(* C29.  The totalItems of a list answer is the number of documents the    *)
(* find of the same request returns over all of its pages, also when the   *)
(* store holds inactive documents.                                         *)
(***************************************************************************)
C29_TotalItemsCountsListed ==
  (resp.op = "list" /\ resp.status = 200)
    => \A query \in resp.arg :
         resp.page.totalItems = Cardinality(PreFind(QueryFilter(store, query, now)))

(***************************************************************************)
(* C22.  Every code a call of generateShortCode returns, by nanoid or by   *)
(* the fallback generator, has the length asked for (5 by default) and     *)
(* only characters of A-Za-z0-9_-; every stored document has a shortCode   *)
(* of 3 to 20 characters of that class.                                    *)
(***************************************************************************)
C22_CodesAreWellFormed ==
  /\ gen.pc = "done"
       => /\ Len(gen.code) = gen.length
          /\ \A i \in 1..Len(gen.code) :
               gen.code[i] \in LowerAlpha \cup UpperAlpha \cup Digits \cup {"_", "-"}
  /\ \A r \in store :
       /\ Len(r.shortCode) >= 3
       /\ Len(r.shortCode) <= 20
       /\ \A i \in 1..Len(r.shortCode) :
            r.shortCode[i] \in LowerAlpha \cup UpperAlpha \cup Digits \cup {"_", "-"}

\* the fallback generator has returned a code of the default length while
\* the store holds a document with a custom code and one with a generated code
C22_Witness ==
  /\ gen.pc = "done"
  /\ gen.path = "fallback"
  /\ gen.length = 5
  /\ Len(gen.code) = 5
  /\ \E r \in store : r.shortCode = CodeAbc
  /\ \E r \in store : r.shortCode \in GenCodes

(***************************************************************************)
(* C23.  Log throws, without posting anything, when its stack (compared    *)
(* without regard to case) is not backend or frontend, its level is not    *)
(* one of debug, info, warn, error, fatal, or its package is not allowed   *)
(* for the stack; it posts only after these checks.  With valid arguments  *)
(* a failed post (fetch rejects or the answer is not 2xx) is thrown when   *)
(* suppressErrors is not set and is returned with ok = false, never        *)
(* thrown, when it is set.                                                 *)
(***************************************************************************)
\* the arguments the logging service accepts
LogArgumentsAllowed(stack, level, pkg) ==
  LET s == toLowerCase(stack)
      l == toLowerCase(level)
      p == toLowerCase(pkg)
  IN /\ s \in {"backend", "frontend"}
     /\ l \in {"debug", "info", "warn", "error", "fatal"}
     /\ \/ p \in BOTH_PACKAGES
        \/ s = "backend" /\ p \in BACKEND_ONLY
        \/ s = "frontend" /\ p \in FRONTEND_ONLY

C23_LogThrowsOrReturns ==
  /\ log.pc = "posting" => LogArgumentsAllowed(log.stack, log.level, log.pkg)
  /\ log.pc = "settled"
       => IF ~LogArgumentsAllowed(log.stack, log.level, log.pkg)
          THEN log.outcome = "thrown" /\ ~log.posted
          ELSE /\ log.posted
               /\ log.result = "ok" => log.outcome = "returned" /\ log.ok
               /\ (log.result # "ok" /\ ~log.suppressErrors)
                    => log.outcome = "thrown"
               /\ (log.result # "ok" /\ log.suppressErrors)
                    => log.outcome = "returned" /\ ~log.ok

\* a post that the service answered with a status other than 2xx, made with
\* suppressErrors set, has been returned
C23_Witness ==
  /\ log.pc = "settled"
  /\ log.caller = "direct"
  /\ log.suppressErrors
  /\ log.result = "notOk"
  /\ log.outcome = "returned"
  /\ ~log.ok

(***************************************************************************)
(* C24.  A failure of logging never changes the outcome of a request:      *)
(* requestLogger calls next() exactly once, with no argument, errorLogger  *)
(* calls next(err) exactly once with the error it was given, and the       *)
(* process goes on, whether Log succeeds, rejects after a failed post, or  *)
(* rejects its stack or package (as it does with the values of app.js).    *)
(***************************************************************************)
C24_LoggingLeavesRequestAlone ==
  /\ ~mw.exited
  /\ mw.pc # "idle"
       => /\ mw.nextCalls = 1
          /\ mw.forwarded = mw.err
          /\ mw.kind = "request" => mw.err = {}
          /\ mw.kind = "error" => Cardinality(mw.err) = 1

\* errorLogger with the options of app.js has passed the error on and the
\* rejection of its Log call, for the stack url-shortener-backend, has settled
C24_Witness ==
  /\ mw.pc = "done"
  /\ mw.kind = "error"
  /\ mw.stack = "url-shortener-backend"
  /\ mw.logged = "thrown"
  /\ mw.nextCalls = 1
  /\ mw.forwarded = {"Boom"}

(***************************************************************************)
(* Vocabulary of the properties of the component.                          *)
(***************************************************************************)
\* the texts of the model that are a URL / a positive integer
ParsableUrls == {HTTPS \o <<"a">>}
PositiveIntegers ==
  {<<"5">>, <<"1", "2", "3">>, <<"9", "9", "9", "9", "9", "9">>}

\* the fields hold a URL and, where they are filled in, positive integers
InputsWellFormed(u) ==
  /\ u.currentUrl \in ParsableUrls
  /\ u.validityPeriod \in {<<>>} \cup PositiveIntegers
  /\ u.preferredShortcode \in {<<>>} \cup PositiveIntegers

MaximumMessage == "Maximum 5 URLs can be shortened concurrently"

(***************************************************************************)
(* C25, as stated.  The list never holds more than 5 entries; every        *)
(* shorten attempt made while the list holds 5 entries shows the message   *)
(* 'Maximum 5 URLs can be shortened concurrently' and sends no request;    *)
(* an attempt with well-formed inputs made while the list holds fewer than *)
(* 5 entries (as after a deletion) sends its request.                      *)
(***************************************************************************)
C25_FullListShowsMaximum ==
  [][/\ Len(ui.urls) <= 5
     /\ Len(ui'.urls) <= 5
     /\ (handleShortenUrl /\ Len(ui.urls) = 5)
          => ui'.error = MaximumMessage /\ ui'.pc = "idle"
     /\ (handleShortenUrl /\ Len(ui.urls) < 5 /\ InputsWellFormed(ui))
          => ui'.pc = "fetching"]_vars

(***************************************************************************)
(* C25, amended.  The list never holds more than 5 entries; a shorten      *)
(* attempt made while the list holds 5 entries sends no request, leaves    *)
(* the list as it was and shows an error, which is 'Maximum 5 URLs can be  *)
(* shortened concurrently' when the inputs are well formed (the checks of  *)
(* the inputs come first); a deletion shortens the list, and an attempt    *)
(* with well-formed inputs made while the list holds fewer than 5 entries  *)
(* sends its request.                                                      *)
(***************************************************************************)
C25_FullListSendsNothing ==
  [][/\ Len(ui.urls) <= 5
     /\ Len(ui'.urls) <= 5
     /\ (handleShortenUrl /\ Len(ui.urls) = 5)
          => /\ ui'.pc = "idle"
             /\ ui'.urls = ui.urls
             /\ ui'.error # ""
             /\ InputsWellFormed(ui) => ui'.error = MaximumMessage
     /\ (\E id \in 0..MaxTime : deleteUrlFromList(id))
          => Len(ui'.urls) < Len(ui.urls)
     /\ (handleShortenUrl /\ Len(ui.urls) < 5 /\ InputsWellFormed(ui))
          => ui'.pc = "fetching"]_vars

\* an attempt with a URL in the field has been refused at five entries
C25_Witness ==
  /\ Len(ui.urls) = 5
  /\ ui.pc = "idle"
  /\ ui.currentUrl \in ParsableUrls
  /\ ui.error = MaximumMessage

(***************************************************************************)
(* C26.  The list grows only by the step that takes a successful answer,   *)
(* and then by exactly one entry at its end.  An attempt whose inputs are  *)
(* not well formed sends no request, leaves the list as it was and shows   *)
(* an error; an answer that rejects, is not ok or is no JSON leaves the    *)
(* list as it was and shows an error; loading is true exactly while a      *)
(* request is on its way.                                                  *)
(***************************************************************************)
C26_ListGrowsOnSuccessOnly ==
  [][/\ Len(ui'.urls) > Len(ui.urls)
          => /\ fetchSettled("ok")
             /\ Len(ui'.urls) = Len(ui.urls) + 1
             /\ SubSeq(ui'.urls, 1, Len(ui.urls)) = ui.urls
     /\ (handleShortenUrl /\ ~InputsWellFormed(ui))
          => /\ ui'.pc = "idle"
             /\ ui'.urls = ui.urls
             /\ ui'.error # ""
             /\ ~ui'.loading
     /\ (\E outcome \in FetchOutcomes \ {"ok"} : fetchSettled(outcome))
          => /\ ui'.urls = ui.urls
             /\ ui'.error # ""
             /\ ~ui'.loading
     /\ fetchSettled("ok") => ~ui'.loading /\ ui'.error = ""
     /\ ui.loading <=> ui.pc = "fetching"
     /\ ui'.loading <=> ui'.pc = "fetching"]_vars

\* the service has refused the second URL: the list still holds one entry
C26_Witness ==
  /\ ui.pc = "idle"
  /\ ~ui.loading
  /\ Len(ui.urls) = 1
  /\ ui.currentUrl \in ParsableUrls
  /\ ui.error = "Failed to shorten URL: HTTP error! status"

(***************************************************************************)
(* C30.  Every body the component posts is accepted by the service's       *)
(* validateShortenRequest, a preferred shortcode (a positive integer sent  *)
(* as a number) included.                                                  *)
(***************************************************************************)
C30_PostedBodiesAreAccepted ==
  ui.pc = "fetching" => validateShortenRequestPosted(ui.requestBody)

====
